---------------------------- MODULE Spec2Model ----------------------------
(***************************************************************************)
(* ATTENDIFY attendance backend.                                           *)
(*                                                                         *)
(* The repository holds four iterations of the same backend: three in      *)
(* src/server.js (called v1, v2, v3 here, in file order) and the           *)
(* face-recognition / geofence iteration in src/unnamed/part_000 (called   *)
(* face).  A deployment runs one of them; `variant` says which.            *)
(*                                                                         *)
(* Collections are sequences of documents in insertion order; a document   *)
(* is a record whose DOMAIN holds the fields that are stored.  A field     *)
(* that is undefined in JavaScript is a field missing from the record.     *)
(*                                                                         *)
(* Numbers are fixed point integers:                                       *)
(*   - face descriptor components and face distances in hundredths,        *)
(*   - latitudes and longitudes in 1e-5 degree,                            *)
(*   - geofence distances and radii in metres, rounded up, so that the     *)
(*     comparisons with a whole number are the comparisons of the reals.   *)
(* NaN is a value of its own that makes every comparison false.            *)
(***************************************************************************)
EXTENDS Integers, Sequences, FiniteSets, TLC

VARIABLES
    variant,            \* which iteration of the backend is deployed
    today,              \* new Date().toISOString().split("T")[0]
    tokens,             \* the JWTs issued so far (payloads)
    User,               \* users collection
    ClassModel,         \* classes collection
    Attendance,         \* attendance collection
    AttendanceRequest,  \* attendance requests collection (face)
    Marks,              \* marks collection
    inflight,           \* upserts whose query phase ran and whose write did not
    last                \* the request the last step handled, with its response

vars == <<variant, today, tokens, User, ClassModel, Attendance,
          AttendanceRequest, Marks, inflight, last>>

----------------------------------------------------------------------------
(* Bounds *)

MaxRequests == 1
MaxInflight == 2
MaxUsers == 3
\* tokens issued before logins stop
MaxTokens == 3

Dates == {"2024-01-01", "2024-01-02"}

----------------------------------------------------------------------------
(* JavaScript numbers *)

NaN == -999999

JsSub(x, y) == IF x = NaN \/ y = NaN THEN NaN ELSE x - y

JsGt(x, y) == x # NaN /\ y # NaN /\ x > y

JsLe(x, y) == x # NaN /\ y # NaN /\ x <= y

\* req.body.<f> used as a number: undefined becomes NaN in arithmetic
NumField(body, f) == IF f \in DOMAIN body THEN body[f] ELSE NaN

RECURSIVE SqrtSearch(_, _, _)
SqrtSearch(n, lo, hi) ==
    IF lo >= hi THEN lo
    ELSE LET mid == (lo + hi) \div 2
         IN  IF mid * mid >= n THEN SqrtSearch(n, lo, mid)
             ELSE SqrtSearch(n, mid + 1, hi)

\* Math.sqrt, rounded up to the next integer
CeilSqrt(n) == IF n = NaN THEN NaN ELSE SqrtSearch(n, 0, 46340)

CeilDiv(a, b) == (a + b - 1) \div b

----------------------------------------------------------------------------
(* Generic collection operations (mongoose) *)

Null == [isNull |-> TRUE]

\* an equality filter { f: v, ... } matches a document that stores each f as v
Matches(doc, filter) ==
    \A f \in DOMAIN filter : f \in DOMAIN doc /\ doc[f] = filter[f]

Indices(coll, filter) == {i \in 1..Len(coll) : Matches(coll[i], filter)}

MinOf(S) == CHOOSE m \in S : \A k \in S : m <= k

\* Model.findOne(filter): the first matching document, or null
FindOne(coll, filter) ==
    IF Indices(coll, filter) = {} THEN Null
    ELSE coll[MinOf(Indices(coll, filter))]

Has(doc, f) == f \in DOMAIN doc


----------------------------------------------------------------------------
(* part_000: helpers *)

\* jwt.sign({ rollNumber, role }): the payload read back by auth as req.user
token(u) == [rollNumber |-> u.rollNumber, role |-> u.role]

\* a.reduce((s,v,i) => s + (v - b[i])**2, 0): b[i] is undefined past the end
\* of b, and then the sum is NaN
RECURSIVE SumSq(_, _, _)
SumSq(a, b, i) ==
    IF i > Len(a) THEN 0
    ELSE LET d == IF i <= Len(b) THEN a[i] - b[i] ELSE NaN
             rest == SumSq(a, b, i + 1)
         IN  IF d = NaN \/ rest = NaN THEN NaN ELSE d * d + rest

dist(a, b) == CeilSqrt(SumSq(a, b, 1))

\* Earth radius in metres
R == 6371000

\* metres of arc per degree, R * PI / 180
MetresPerDegree == ((R \div 1000) * 314159) \div 18000

\* 100 * Math.cos(lat * PI / 180), by the series 1 - x^2/2 on whole degrees
CosPct(lat) ==
    LET deg == lat \div 100000
    IN  100 - (deg * deg * 3046) \div 200000

\* Haversine distance in metres.  For the few hundred metres of a geofence
\* sin(x/2)^2 is (x/2)^2 and 2*atan2(sqrt(a), sqrt(1-a)) is 2*sqrt(a); `a`
\* below is the code's a times 4 * (180/PI)^2 * 1e14.
geoOneCosine(lat1, lon1, lat2, lon2) ==
    LET dLat == JsSub(lat2, lat1)
        dLon == JsSub(lon2, lon1)
    IN  IF dLat = NaN \/ dLon = NaN THEN NaN
        ELSE LET a == dLat * dLat * 10000
                      + CosPct(lat1) * CosPct(lat1) * dLon * dLon
             IN  CeilDiv(CeilSqrt(a) * MetresPerDegree, 10000000)
geo(lat1, lon1, lat2, lon2) ==
    LET dLat == JsSub(lat2, lat1)
        dLon == JsSub(lon2, lon1)
    IN  IF dLat = NaN \/ dLon = NaN THEN NaN
        ELSE LET a == dLat * dLat * 10000
                      + CosPct(lat1) * CosPct(lat2) * dLon * dLon
             IN  CeilDiv(CeilSqrt(a) * MetresPerDegree, 10000000)

\* dist(det.descriptor, u.faceDescriptor) > 0.55, in hundredths
FaceThreshold == 55

----------------------------------------------------------------------------
(* part_000: data the bounded model draws from *)

\* the descriptor /face/register stores for r1's own face
E0 == <<0, 0>>

\* the uploaded image (req.file) and what face detection returns for it:
\* no file at all; a file with no face; a face at distance 0, 0.55 (the
\* threshold itself) or 0.566 of E0
NoFile == [file |-> FALSE]
NoFace == [file |-> TRUE, found |-> FALSE]
Face(p) == [file |-> TRUE, found |-> TRUE, descriptor |-> p]

Uploads == {NoFile, NoFace, Face(<<55, 0>>), Face(<<40, 40>>)}

\* the one class that has a registered location: 13.0 N 80.0 E, 50 m
Class1 == [name |-> "c1", latitude |-> 1300000, longitude |-> 8000000,
           radius |-> 50]

\* req.body of /attendance/auto: 50 m east of the class (on the fence), 81 m
\* north of it (outside), and with the longitude omitted
AutoBodies ==
    {[latitude |-> Class1.latitude, longitude |-> Class1.longitude + 45],
     [latitude |-> Class1.latitude + 72, longitude |-> Class1.longitude],
     [latitude |-> Class1.latitude]}

FaceClasses == <<Class1>>

\* r1's stored document varies: never enrolled (the field absent, or the empty
\* array mongoose gives an array path by default); in class c1, in class c2
\* (which has no document in the classes collection), or in no class
FaceUsers ==
    {<<[rollNumber |-> "o1", role |-> "owner", faceDescriptor |-> <<>>],
       [rollNumber |-> "t1", role |-> "staff", faceDescriptor |-> <<>>],
       r1>> :
     r1 \in {[rollNumber |-> "r1", role |-> "student", enrolledClass |-> "c1"],
             [rollNumber |-> "r1", role |-> "student", enrolledClass |-> "c1",
              faceDescriptor |-> <<>>],
             [rollNumber |-> "r1", role |-> "student", enrolledClass |-> "c2",
              faceDescriptor |-> <<>>],
             [rollNumber |-> "r1", role |-> "student",
              faceDescriptor |-> <<>>]}}

NoRequest == [op |-> "none"]

InitFace ==
    /\ variant = "face"
    /\ today = "2024-01-01"
    /\ User \in FaceUsers
    /\ tokens = {token(User[i]) : i \in 1..Len(User)}
    /\ ClassModel = FaceClasses
    /\ Attendance = <<>>
    /\ AttendanceRequest = <<>>
    /\ Marks = <<>>
    /\ inflight = <<>>
    /\ last = NoRequest

----------------------------------------------------------------------------
(* part_000: routes *)

ResFail == [success |-> FALSE]
ResOk == [success |-> TRUE]
ResAuto(b) == [success |-> TRUE, auto |-> b]
\* an exception thrown inside the async handler: no response is sent
Threw == [threw |-> "TypeError"]

\* Attendance.findOneAndUpdate(filter, fields, { upsert:true }), one atomic
\* step: the first document matching the filter gets `fields` set, or `fields` is
\* inserted when none matches
UpsertAlwaysInsert(coll, filter, fields) == Append(coll, fields @@ filter)
UpsertKeepsOld(coll, filter, fields) ==
    IF Indices(coll, filter) = {} THEN Append(coll, fields @@ filter) ELSE coll
Upsert(coll, filter, fields) ==
    IF Indices(coll, filter) = {} THEN Append(coll, fields @@ filter)
    ELSE [coll EXCEPT ![MinOf(Indices(coll, filter))] = fields @@ @]

\* User.updateOne(filter, fields)
UpdateOne(coll, filter, fields) ==
    IF Indices(coll, filter) = {} THEN coll
    ELSE [coll EXCEPT ![MinOf(Indices(coll, filter))] = fields @@ @]

\* POST /face/register
FaceRegister(tok, upload) ==
    LET req == [op |-> "face/register", tok |-> tok, upload |-> upload]
        Reply(res) == last' = req @@ [res |-> res]
    IN
    /\ variant = "face"
    /\ tok \in tokens
    /\ IF ~upload.file
       THEN Reply(Threw) /\ UNCHANGED User
       ELSE IF ~upload.found
       THEN Reply(ResFail) /\ UNCHANGED User
       ELSE /\ User' = UpdateOne(User, [rollNumber |-> tok.rollNumber],
                                 [faceDescriptor |-> upload.descriptor])
            /\ Reply(ResOk)
    /\ UNCHANGED <<variant, today, tokens, ClassModel, Attendance,
                   AttendanceRequest, Marks, inflight>>

\* if(!u.faceDescriptor): an empty array is truthy
NoDescriptor(u) == ~Has(u, "faceDescriptor")

\* !det || dist(det.descriptor, u.faceDescriptor) > 0.55
FaceRejectedLoose(det, u) ==
    ~det.found
    \/ JsGt(dist(det.descriptor, u.faceDescriptor), FaceThreshold + 5)
FaceRejected(det, u) ==
    ~det.found \/ JsGt(dist(det.descriptor, u.faceDescriptor), FaceThreshold)

\* meters <= cls.radius
WithinGeofenceLt(meters, cls) == JsLe(meters, cls.radius - 1)
WithinGeofenceDiameter(meters, cls) == JsLe(meters, 2 * cls.radius)
WithinGeofence(meters, cls) == JsLe(meters, cls.radius)

\* the document /attendance/auto upserts
AutoRecord(u, date) ==
    (IF Has(u, "enrolledClass") THEN [className |-> u.enrolledClass] ELSE <<>>)
    @@ [rollNumber |-> u.rollNumber, date |-> date, status |-> "Present",
        markedBy |-> "auto"]

\* the document /attendance/auto creates when outside the geofence
AutoRequest(u, date, body) ==
    (IF Has(u, "enrolledClass") THEN [className |-> u.enrolledClass] ELSE <<>>)
    @@ [f \in DOMAIN body \cap {"latitude", "longitude"} |-> body[f]]
    @@ [rollNumber |-> u.rollNumber, date |-> date, status |-> "pending"]

\* POST /attendance/auto
AttendanceAuto(tok, body, upload) ==
    LET date == today
        u == FindOne(User, [rollNumber |-> tok.rollNumber])
        cls == IF u = Null \/ ~Has(u, "enrolledClass") THEN Null
               ELSE FindOne(ClassModel, [name |-> u.enrolledClass])
        key == [rollNumber |-> u.rollNumber, date |-> date]
        det == upload
        req == [op |-> "attendance/auto", tok |-> tok, body |-> body,
                upload |-> upload]
        meters == geo(NumField(body, "latitude"), NumField(body, "longitude"),
                      cls.latitude, cls.longitude)
        Reply(res) == last' = req @@ [res |-> res]
    IN
    /\ variant = "face"
    /\ tok \in tokens
    /\ IF u = Null
       THEN Reply(Threw) /\ UNCHANGED <<Attendance, AttendanceRequest>>
       ELSE IF NoDescriptor(u)
       THEN Reply(ResFail) /\ UNCHANGED <<Attendance, AttendanceRequest>>
       ELSE IF ~upload.file
       THEN Reply(Threw) /\ UNCHANGED <<Attendance, AttendanceRequest>>
       ELSE IF FaceRejected(det, u)
       THEN Reply(ResFail) /\ UNCHANGED <<Attendance, AttendanceRequest>>
       ELSE IF cls = Null
       THEN Reply(Threw) /\ UNCHANGED <<Attendance, AttendanceRequest>>
       ELSE IF WithinGeofence(meters, cls)
       THEN /\ Attendance' = Upsert(Attendance, key, AutoRecord(u, date))
            /\ Reply(ResAuto(TRUE))
            /\ UNCHANGED AttendanceRequest
       ELSE /\ Len(AttendanceRequest) < MaxRequests
            /\ AttendanceRequest' =
                   Append(AttendanceRequest, AutoRequest(u, date, body))
            /\ Reply(ResAuto(FALSE))
            /\ UNCHANGED Attendance
    /\ UNCHANGED <<variant, today, tokens, User, ClassModel, Marks, inflight>>

\* ["owner","staff"].includes(req.user.role)
OwnerOrStaffOrStudent(tok) == tok.role \in {"owner", "staff", "student"}
OwnerOrStaff(tok) == tok.role \in {"owner", "staff"}

\* AttendanceRequest.find({ status: "pending" })
PendingRequests(requests) ==
    LET Pending(r) == r.status = "pending"
    IN  SelectSeq(requests, Pending)

\* GET /owner/attendance/requests
OwnerAttendanceRequests(tok) ==
    LET req == [op |-> "owner/attendance/requests", tok |-> tok]
        Reply(res) == last' = req @@ [res |-> res]
    IN
    /\ variant = "face"
    /\ tok \in tokens
    /\ IF ~OwnerOrStaff(tok)
       THEN Reply(ResFail)
       ELSE Reply([success |-> TRUE,
                   requests |-> PendingRequests(AttendanceRequest)])
    /\ UNCHANGED <<variant, today, tokens, User, ClassModel, Attendance,
                   AttendanceRequest, Marks, inflight>>

\* r.status = approve ? "approved" : "rejected"
DecisionStatusSwapped(approve) == IF approve THEN "rejected" ELSE "approved"
DecisionStatus(approve) == IF approve THEN "approved" ELSE "rejected"

\* the document /owner/attendance/decision upserts
DecisionRecord(r, approve, tok) ==
    [f \in DOMAIN r \cap {"className"} |-> r[f]]
    @@ [rollNumber |-> r.rollNumber, date |-> r.date,
        status |-> IF approve THEN "Present" ELSE "Absent",
        markedBy |-> tok.role]

\* AttendanceRequest.findById(requestId): _id is the position in the collection
FindById(coll, id) == IF id \in 1..Len(coll) THEN coll[id] ELSE Null

\* POST /owner/attendance/decision
OwnerAttendanceDecision(tok, body) ==
    LET r == FindById(AttendanceRequest, body.requestId)
        key == [rollNumber |-> r.rollNumber, date |-> r.date]
        req == [op |-> "owner/attendance/decision", tok |-> tok, body |-> body]
        Reply(res) == last' = req @@ [res |-> res]
    IN
    /\ variant = "face"
    /\ tok \in tokens
    /\ IF ~OwnerOrStaff(tok)
       THEN Reply(ResFail) /\ UNCHANGED <<Attendance, AttendanceRequest>>
       ELSE IF r = Null
       THEN Reply(ResFail) /\ UNCHANGED <<Attendance, AttendanceRequest>>
       ELSE /\ AttendanceRequest' =
                   [AttendanceRequest EXCEPT ![body.requestId] =
                       [status |-> DecisionStatus(body.approve)] @@ @]
            /\ Attendance' = Upsert(Attendance, key,
                                    DecisionRecord(r, body.approve, tok))
            /\ Reply(ResOk)
    /\ UNCHANGED <<variant, today, tokens, User, ClassModel, Marks, inflight>>

\* the calendar day changes between two requests
NextDay ==
    /\ variant = "face"
    /\ today = "2024-01-01"
    /\ today' = "2024-01-02"
    /\ last' = NoRequest
    /\ UNCHANGED <<variant, tokens, User, ClassModel, Attendance,
                   AttendanceRequest, Marks, inflight>>

DecisionBodies == [requestId : 1..MaxRequests, approve : BOOLEAN]

\* the tokens of the students
StudentTokens == {t \in tokens : t.role = "student"}

NextFace ==
    \/ \E tok \in StudentTokens, upload \in {NoFile, NoFace, Face(E0)} :
           FaceRegister(tok, upload)
    \/ \E tok \in StudentTokens, body \in AutoBodies, upload \in Uploads :
           AttendanceAuto(tok, body, upload)
    \/ \E tok \in tokens : OwnerAttendanceRequests(tok)
    \/ \E tok \in tokens, body \in DecisionBodies :
           OwnerAttendanceDecision(tok, body)
    \/ NextDay

SpecFace == InitFace /\ [][NextFace]_vars

----------------------------------------------------------------------------
(* part_000: properties of /attendance/auto *)

\* the stored document of the caller of request l
CallerOf(l, users) == FindOne(users, [rollNumber |-> l.tok.rollNumber])

\* the class document of the caller's enrolled class, or Null
ClassOf(l, users, classes) ==
    LET u == CallerOf(l, users)
    IN  IF u = Null \/ ~Has(u, "enrolledClass") THEN Null
        ELSE FindOne(classes, [name |-> u.enrolledClass])

\* squared Euclidean distance of two descriptors of the same length
SqDist(a, b) ==
    LET sq[i \in 0..Len(a)] ==
            IF i = 0 THEN 0 ELSE sq[i - 1] + (a[i] - b[i]) * (a[i] - b[i])
    IN  sq[Len(a)]

\* the caller has enrolled a face: a stored, non-empty descriptor
Enrolled(u) ==
    u # Null /\ Has(u, "faceDescriptor") /\ Len(u.faceDescriptor) > 0

NeverEnrolled(u) ==
    u # Null /\ (~Has(u, "faceDescriptor") \/ u.faceDescriptor = <<>>)

\* request l carries an image with a face at a distance <= 0.55 of u's enrolment
FaceAccepted(l, u) ==
    /\ l.upload.file /\ l.upload.found
    /\ Enrolled(u)
    /\ Len(u.faceDescriptor) = Len(l.upload.descriptor)
    /\ SqDist(l.upload.descriptor, u.faceDescriptor)
           <= FaceThreshold * FaceThreshold

\* request l carries an image with no face, or with a face at a distance > 0.55
\* of u's enrolment
FaceNotAccepted(l, u) ==
    /\ l.upload.file
    /\ \/ ~l.upload.found
       \/ /\ Enrolled(u)
          /\ Len(u.faceDescriptor) = Len(l.upload.descriptor)
          /\ SqDist(l.upload.descriptor, u.faceDescriptor)
                 > FaceThreshold * FaceThreshold

HasCoordinates(l) == {"latitude", "longitude"} \subseteq DOMAIN l.body

\* request l is an /attendance/auto submission with an accepted face and both
\* coordinates, by a student whose class has a location
Locatable(l, users, classes) ==
    /\ l.op = "attendance/auto"
    /\ FaceAccepted(l, CallerOf(l, users))
    /\ HasCoordinates(l)
    /\ ClassOf(l, users, classes) # Null

\* metres between the submitted coordinates and the class
Meters(l, cls) ==
    geo(l.body.latitude, l.body.longitude, cls.latitude, cls.longitude)

\* exactly one document of coll matches key, and it stores `fields`
SingleRecord(coll, key, fields) ==
    /\ Cardinality(Indices(coll, key)) = 1
    /\ \A i \in Indices(coll, key) : Matches(coll[i], fields)

\* C1: an accepted face inside the geofence (the fence itself included) marks
\* the caller Present for today, markedBy auto, and creates no request
C1_AcceptedInsideIsPresent ==
    [][ LET l == last'
            cls == ClassOf(l, User', ClassModel')
        IN  (Locatable(l, User', ClassModel') /\ Meters(l, cls) <= cls.radius)
            => /\ l.res = ResAuto(TRUE)
               /\ SingleRecord(Attendance',
                               [rollNumber |-> l.tok.rollNumber, date |-> today'],
                               [status |-> "Present", markedBy |-> "auto"])
               /\ AttendanceRequest' = AttendanceRequest ]_vars

\* an accepted face exactly on the fence was marked Present
C1_Witness ==
    /\ Locatable(last, User, ClassModel)
    /\ Meters(last, ClassOf(last, User, ClassModel))
           = ClassOf(last, User, ClassModel).radius
    /\ last.res = ResAuto(TRUE)
    /\ SingleRecord(Attendance,
                    [rollNumber |-> last.tok.rollNumber, date |-> today],
                    [status |-> "Present", markedBy |-> "auto"])

\* C2: an accepted face outside the geofence creates exactly one pending
\* request for (caller, class, date) and leaves the attendance records alone
C2_AcceptedOutsideIsPending ==
    [][ LET l == last'
            cls == ClassOf(l, User', ClassModel')
        IN  (Locatable(l, User', ClassModel') /\ Meters(l, cls) > cls.radius)
            => /\ l.res = ResAuto(FALSE)
               /\ AttendanceRequest' =
                      Append(AttendanceRequest,
                             [rollNumber |-> l.tok.rollNumber,
                              className |-> cls.name,
                              date |-> today',
                              latitude |-> l.body.latitude,
                              longitude |-> l.body.longitude,
                              status |-> "pending"])
               /\ Attendance' = Attendance ]_vars

\* an accepted face 81 m from the class left a pending request behind
C2_Witness ==
    /\ Locatable(last, User, ClassModel)
    /\ Meters(last, ClassOf(last, User, ClassModel))
           > ClassOf(last, User, ClassModel).radius
    /\ last.res = ResAuto(FALSE)
    /\ Len(AttendanceRequest) > 0
    /\ Matches(AttendanceRequest[Len(AttendanceRequest)],
               [rollNumber |-> last.tok.rollNumber, date |-> today,
                status |-> "pending"])

\* C3: a rejected face match fails and writes nothing, whatever the coordinates
C3_RejectedWritesNothing ==
    [][ (last'.op = "attendance/auto"
           /\ FaceNotAccepted(last', CallerOf(last', User')))
        => /\ last'.res = ResFail
           /\ Attendance' = Attendance
           /\ AttendanceRequest' = AttendanceRequest ]_vars

\* a face farther than 0.55 from the enrolment was refused, with coordinates
\* that are inside the geofence
C3_Witness ==
    /\ last.op = "attendance/auto"
    /\ FaceNotAccepted(last, CallerOf(last, User))
    /\ last.upload.found
    /\ HasCoordinates(last)
    /\ ClassOf(last, User, ClassModel) # Null
    /\ Meters(last, ClassOf(last, User, ClassModel))
           <= ClassOf(last, User, ClassModel).radius
    /\ last.res = ResFail

\* C4: a student who never enrolled a face gets a failure and nothing is written
C4_NeverEnrolledFails ==
    [][ (last'.op = "attendance/auto"
           /\ NeverEnrolled(CallerOf(last', User'))
           /\ last'.upload.file /\ last'.upload.found
           /\ HasCoordinates(last')
           /\ ClassOf(last', User', ClassModel') # Null)
        => /\ last'.res = ResFail
           /\ Attendance' = Attendance
           /\ AttendanceRequest' = AttendanceRequest ]_vars

\* C10: a submission without latitude, longitude or image is rejected and
\* changes nothing (stated for the callers who have enrolled a face)
C10_MissingInputRejected ==
    [][ (last'.op = "attendance/auto"
           /\ Enrolled(CallerOf(last', User'))
           /\ (~HasCoordinates(last') \/ ~last'.upload.file))
        => /\ last'.res \in {ResFail, Threw}
           /\ Attendance' = Attendance
           /\ AttendanceRequest' = AttendanceRequest ]_vars

\* C11: a submission by a student whose class has no document in the classes
\* collection, or who has no class, gets a failure response and nothing is
\* written (stated for the callers who have enrolled a face and send an image
\* and both coordinates)
C11_MissingClassFails ==
    [][ (last'.op = "attendance/auto"
           /\ Enrolled(CallerOf(last', User'))
           /\ last'.upload.file
           /\ HasCoordinates(last')
           /\ ClassOf(last', User', ClassModel') = Null)
        => /\ last'.res = ResFail
           /\ Attendance' = Attendance
           /\ AttendanceRequest' = AttendanceRequest ]_vars

\* why request l failed, for the three causes a client has to tell apart:
\* never enrolled, no face in the image, a face too far from the enrolment
FailureCause(l, users) ==
    LET u == CallerOf(l, users)
    IN  IF l.op # "attendance/auto" \/ u = Null THEN "none"
        ELSE IF ~Has(u, "faceDescriptor") THEN "not enrolled"
        ELSE IF ~l.upload.file THEN "none"
        ELSE IF ~l.upload.found THEN "no face"
        ELSE IF Enrolled(u) /\ ~FaceAccepted(l, u) THEN "no match"
        ELSE "none"

\* C12: two submissions that fail for different causes (never enrolled, no
\* face detected, face too far) get different responses; stated for two
\* requests handled one after the other
C12_FailuresDistinguishable ==
    [][ (/\ FailureCause(last, User) # "none"
         /\ FailureCause(last', User') # "none"
         /\ FailureCause(last, User) # FailureCause(last', User'))
        => last.res # last'.res ]_vars

\* the fields of AttendanceRequestSchema
RequestSchemaFields ==
    {"rollNumber", "className", "date", "latitude", "longitude", "status"}

\* C13: the request a submission creates stores the submitted coordinates and,
\* in some field, the distance computed for the submission
C13_RequestStoresDistance ==
    [][ (/\ last'.op = "attendance/auto"
         /\ Enrolled(CallerOf(last', User'))
         /\ HasCoordinates(last')
         /\ Len(AttendanceRequest') = Len(AttendanceRequest) + 1)
        => LET r == AttendanceRequest'[Len(AttendanceRequest')]
               cls == ClassOf(last', User', ClassModel')
           IN  /\ Matches(r, [latitude |-> last'.body.latitude,
                              longitude |-> last'.body.longitude])
               /\ \E f \in DOMAIN r \ RequestSchemaFields :
                      r[f] = Meters(last', cls) ]_vars

----------------------------------------------------------------------------
(* part_000: properties of /owner/attendance/decision *)

Decided == {"approved", "rejected"}

\* request l is a decision by an owner or staff token on a stored request
DecisionOn(l, requests) ==
    /\ l.op = "owner/attendance/decision"
    /\ l.tok.role \in {"owner", "staff"}
    /\ l.body.requestId \in 1..Len(requests)

\* C5: a decision by owner or staff on an existing request sets the request to
\* approved and the record of its (rollNumber, date) to Present when approve
\* is true, to rejected and Absent when it is false
C5_DecisionWritesBoth ==
    [][ LET l == last'
            id == l.body.requestId
            r == AttendanceRequest[id]
        IN  DecisionOn(l, AttendanceRequest)
            => /\ l.res = ResOk
               /\ AttendanceRequest' =
                      [AttendanceRequest EXCEPT ![id].status =
                          IF l.body.approve THEN "approved" ELSE "rejected"]
               /\ SingleRecord(Attendance',
                               [rollNumber |-> r.rollNumber, date |-> r.date],
                               [status |-> IF l.body.approve THEN "Present"
                                           ELSE "Absent",
                                markedBy |-> l.tok.role]) ]_vars

\* a request of the day before was rejected by a staff member and the student
\* is Absent on the request's date
C5_Witness ==
    /\ DecisionOn(last, AttendanceRequest)
    /\ last.tok.role = "staff"
    /\ ~last.body.approve
    /\ last.res = ResOk
    /\ LET r == AttendanceRequest[last.body.requestId]
       IN  /\ r.status = "rejected"
           /\ r.date # today
           /\ SingleRecord(Attendance,
                           [rollNumber |-> r.rollNumber, date |-> r.date],
                           [status |-> "Absent", markedBy |-> "staff"])

\* C6: a decided request keeps its status, and a later decision on it does not
\* rewrite the attendance record
C6_DecidedIsTerminal ==
    [][ \A i \in 1..Len(AttendanceRequest) :
            AttendanceRequest[i].status \in Decided
            => /\ AttendanceRequest'[i].status = AttendanceRequest[i].status
               /\ (DecisionOn(last', AttendanceRequest)
                       /\ last'.body.requestId = i)
                   => Attendance' = Attendance ]_vars

\* C14: a decision by a caller who is neither owner nor staff fails and changes
\* no request and no record; a listing by such a caller fails and carries no
\* requests
C14_OnlyOwnerOrStaffResolve ==
    [][ (/\ last'.op \in {"owner/attendance/decision",
                          "owner/attendance/requests"}
         /\ last'.tok.role \notin {"owner", "staff"})
        => /\ last'.res = ResFail
           /\ AttendanceRequest' = AttendanceRequest
           /\ Attendance' = Attendance ]_vars

\* a student tried to approve a pending request of their own and it is still
\* pending, with no attendance record written
C14_Witness ==
    /\ last.op = "owner/attendance/decision"
    /\ last.tok.role = "student"
    /\ last.body.requestId \in 1..Len(AttendanceRequest)
    /\ last.body.approve
    /\ AttendanceRequest[last.body.requestId].status = "pending"
    /\ AttendanceRequest[last.body.requestId].rollNumber = last.tok.rollNumber
    /\ Attendance = <<>>
    /\ last.res = ResFail

----------------------------------------------------------------------------
(* server.js: POST /owner/attendance in its three iterations *)

Reply200(ok) == [code |-> 200, success |-> ok]
Reply400 == [code |-> 400, success |-> FALSE]
Reply403 == [code |-> 403, success |-> FALSE]
Reply500 == [code |-> 500, success |-> FALSE]

\* !x for a body field: undefined or the empty string
Falsy(body, f) == f \notin DOMAIN body \/ body[f] = ""

\* Model.create(doc) on a collection with a unique index on keyFields: the
\* insert fails with a duplicate key error when the key is taken
DuplicateKey(coll, keyFields, doc) ==
    \E i \in 1..Len(coll) : \A f \in keyFields : coll[i][f] = doc[f]

\* first iteration: createToken, lines 65-71
tokenV1(u) == [email |-> u.email, role |-> u.role]

UsersV1 ==
    <<[email |-> "owner@x.in", role |-> "owner"],
      [email |-> "s1@x.in", role |-> "student"]>>

\* AttendanceSchema of the first iteration: status is an enum
StatusEnumV1 == {"Present", "Absent"}

\* req.body of /owner/attendance, first iteration
BodiesV1 ==
    [email : {"s1@x.in"}, className : {"c1", "c2"},
     status : {"Present", "Absent", "Late"}, date : Dates]
    \cup {[email |-> "s1@x.in", className |-> "c1", date |-> "2024-01-01"]}

InitV1 ==
    /\ variant = "v1"
    /\ today = "2024-01-01"
    /\ User = UsersV1
    /\ tokens = {tokenV1(User[i]) : i \in 1..Len(User)}
    /\ ClassModel = <<>>
    /\ Attendance = <<>>
    /\ AttendanceRequest = <<>>
    /\ Marks = <<>>
    /\ inflight = <<>>
    /\ last = NoRequest

\* POST /owner/attendance, first iteration
OwnerAttendanceV1(tok, body) ==
    LET req == [op |-> "owner/attendance", tok |-> tok, body |-> body]
        Reply(res) == last' = req @@ [res |-> res]
    IN
    /\ variant = "v1"
    /\ tok \in tokens
    /\ IF tok.role # "owner"
       THEN Reply(Reply403) /\ UNCHANGED Attendance
       ELSE IF \E f \in {"email", "className", "status", "date"} : Falsy(body, f)
       THEN Reply(Reply400) /\ UNCHANGED Attendance
       ELSE IF body.status \notin StatusEnumV1
       THEN Reply(Reply500) /\ UNCHANGED Attendance
       ELSE IF DuplicateKey(Attendance, {"email", "date"}, body)
       THEN Reply(Reply200(FALSE)) /\ UNCHANGED Attendance
       ELSE /\ Attendance' = Append(Attendance, body)
            /\ Reply(Reply200(TRUE))
    /\ UNCHANGED <<variant, today, tokens, User, ClassModel, AttendanceRequest,
                   Marks, inflight>>

NextV1 ==
    \E tok \in tokens, body \in BodiesV1 : OwnerAttendanceV1(tok, body)

\* second and third iteration: createToken, lines 496-502 and 1035-1041; _id
\* is the position of the user in the collection
createToken(u, id) == [id |-> id, role |-> u.role, rollNumber |-> u.rollNumber]

UsersV2 ==
    <<[rollNumber |-> "o1", role |-> "owner", monitorClasses |-> {}],
      [rollNumber |-> "t1", role |-> "staff", monitorClasses |-> {"c1"}],
      [rollNumber |-> "r1", role |-> "student", monitorClasses |-> {}]>>

\* req.body of /owner/attendance, second and third iteration
BodiesV23 ==
    [rollNumber : {"r1"}, className : {"c1", "c2"},
     status : {"Present", "Absent"}, date : {"2024-01-01"}]

InitV2 ==
    /\ variant = "v2"
    /\ today = "2024-01-01"
    /\ User = UsersV2
    /\ tokens = {createToken(User[i], i) : i \in 1..Len(User)}
    /\ ClassModel = <<>>
    /\ Attendance = <<>>
    /\ AttendanceRequest = <<>>
    /\ Marks = <<>>
    /\ inflight = <<>>
    /\ last = NoRequest

\* the filter and the update of the attendance upsert, lines 870-874, 1348-1352
AttendanceKey(body) ==
    [f \in {"rollNumber", "className", "date"} |-> body[f]]

UpsertAttendance(coll, body) == Upsert(coll, AttendanceKey(body), body)

\* POST /owner/attendance, second iteration
OwnerAttendanceV2(tok, body) ==
    LET me == FindOne(User, [rollNumber |-> tok.rollNumber])
        req == [op |-> "owner/attendance", tok |-> tok, body |-> body]
        Reply(res) == last' = req @@ [res |-> res]
    IN
    /\ variant = "v2"
    /\ tok \in tokens
    /\ IF me = Null
       THEN Reply(Reply200(FALSE)) /\ UNCHANGED Attendance
       ELSE IF me.role # "owner" /\ me.role # "staff"
       THEN Reply(Reply403) /\ UNCHANGED Attendance
       ELSE IF me.role = "staff" /\ body.className \notin me.monitorClasses
       THEN Reply(Reply403) /\ UNCHANGED Attendance
       ELSE /\ Attendance' = UpsertAttendance(Attendance, body)
            /\ Reply(Reply200(TRUE))
    /\ UNCHANGED <<variant, today, tokens, User, ClassModel, AttendanceRequest,
                   Marks, inflight>>

\* Attendance.find({ className, date })
FindRecords(coll, filter) ==
    LET Hit(doc) == Matches(doc, filter)
    IN  SelectSeq(coll, Hit)

\* the { className, date } of a body, undefined fields left out
ByDateFilter(body) == [f \in DOMAIN body \cap {"className", "date"} |-> body[f]]

\* POST /owner/attendance/by-date, second iteration
OwnerAttendanceByDateV2(tok, body) ==
    LET me == FindOne(User, [rollNumber |-> tok.rollNumber])
        req == [op |-> "owner/attendance/by-date", tok |-> tok, body |-> body]
        Reply(res) == last' = req @@ [res |-> res]
    IN
    /\ variant = "v2"
    /\ tok \in tokens
    /\ IF me = Null
       THEN Reply(Reply200(FALSE))
       ELSE IF me.role # "owner" /\ me.role # "staff"
       THEN Reply(Reply403)
       ELSE IF me.role = "staff"
               /\ (~Has(body, "className")
                   \/ body.className \notin me.monitorClasses)
       THEN Reply(Reply403)
       ELSE Reply(Reply200(TRUE)
                  @@ [records |-> FindRecords(Attendance, ByDateFilter(body))])
    /\ UNCHANGED <<variant, today, tokens, User, ClassModel, Attendance,
                   AttendanceRequest, Marks, inflight>>

\* user.monitorClasses = Array.isArray(monitorClasses) ? monitorClasses : []
\* for staff, [] for every other role
MonitorClassesOf(body) ==
    IF body.role = "staff" /\ Has(body, "monitorClasses")
    THEN body.monitorClasses ELSE {}

\* POST /owner/user/:rollNumber/role, second iteration
OwnerUserRoleV2(tok, rollNumber, body) ==
    LET me == FindOne(User, [rollNumber |-> tok.rollNumber])
        filter == [rollNumber |-> rollNumber]
        user == FindOne(User, filter)
        req == [op |-> "owner/user/role", tok |-> tok, rollNumber |-> rollNumber,
                body |-> body]
        Reply(res) == last' = req @@ [res |-> res]
    IN
    /\ variant = "v2"
    /\ tok \in tokens
    /\ IF me = Null \/ me.role # "owner"
       THEN Reply(Reply403) /\ UNCHANGED User
       ELSE IF user = Null
       THEN Reply(Reply200(FALSE)) /\ UNCHANGED User
       ELSE /\ User' = UpdateOne(User, filter,
                                 [role |-> body.role,
                                  monitorClasses |-> MonitorClassesOf(body)])
            /\ Reply(Reply200(TRUE))
    /\ UNCHANGED <<variant, today, tokens, ClassModel, Attendance,
                   AttendanceRequest, Marks, inflight>>

\* req.body of /owner/attendance/by-date
ByDateBodies ==
    [className : {"c1", "c2"}, date : {"2024-01-01"}]
    \cup {[date |-> "2024-01-01"]}

\* req.body of /owner/attendance, second iteration: any string is a status
BodiesV2 ==
    BodiesV23
    \cup {[rollNumber |-> "r1", className |-> "c1", status |-> "Late",
           date |-> "2024-01-01"]}

\* req.body of /owner/user/:rollNumber/role for the staff member t1
StaffRoleBodiesV2 ==
    {[role |-> "student"],
     [role |-> "staff", monitorClasses |-> {"c1"}],
     [role |-> "staff", monitorClasses |-> {"c2"}],
     [role |-> "staff"]}

NextV2 ==
    \/ \E tok \in tokens, body \in BodiesV2 : OwnerAttendanceV2(tok, body)
    \/ \E tok \in tokens, body \in ByDateBodies :
           OwnerAttendanceByDateV2(tok, body)
    \/ \E tok \in tokens, body \in StaffRoleBodiesV2 :
           OwnerUserRoleV2(tok, "t1", body)

UsersV3 ==
    <<[rollNumber |-> "o1", role |-> "owner", passwordHash |-> "pw"],
      [rollNumber |-> "t1", role |-> "staff", monitorClass |-> "c1",
       passwordHash |-> "pw"],
      [rollNumber |-> "r1", role |-> "student", passwordHash |-> "pw"]>>

InitV3 ==
    /\ variant = "v3"
    /\ today = "2024-01-01"
    /\ User = UsersV3
    /\ tokens = {createToken(User[i], i) : i \in 1..Len(User)}
    /\ ClassModel = <<>>
    /\ Attendance = <<>>
    /\ AttendanceRequest = <<>>
    /\ Marks = <<>>
    /\ inflight = <<>>
    /\ last = NoRequest

\* requireOwnerOrStaff, lines 1058-1061
requireOwnerOrStaff(tok) == tok.role = "owner" \/ tok.role = "staff"

\* if(staffUser.monitorClass !== className) return 403
StaffOtherClassOff(staffUser, body) == FALSE
StaffOtherClass(staffUser, body) == staffUser.monitorClass # body.className

\* POST /owner/attendance, third iteration
OwnerAttendanceV3(tok, body) ==
    LET staffUser == FindOne(User, [rollNumber |-> tok.rollNumber])
        req == [op |-> "owner/attendance", tok |-> tok, body |-> body]
        Reply(res) == last' = req @@ [res |-> res]
    IN
    /\ variant = "v3"
    /\ tok \in tokens
    /\ IF ~requireOwnerOrStaff(tok)
       THEN Reply(Reply403) /\ UNCHANGED Attendance
       ELSE IF \E f \in {"rollNumber", "className", "date", "status"} :
                   Falsy(body, f)
       THEN Reply(Reply400) /\ UNCHANGED Attendance
       ELSE IF tok.role = "staff"
               /\ (staffUser = Null \/ Falsy(staffUser, "monitorClass"))
       THEN Reply(Reply403) /\ UNCHANGED Attendance
       ELSE IF tok.role = "staff" /\ StaffOtherClass(staffUser, body)
       THEN Reply(Reply403) /\ UNCHANGED Attendance
       ELSE /\ Attendance' = UpsertAttendance(Attendance, body)
            /\ Reply(Reply200(TRUE))
    /\ UNCHANGED <<variant, today, tokens, User, ClassModel, AttendanceRequest,
                   Marks, inflight>>

\* POST /owner/attendance/by-date, third iteration
OwnerAttendanceByDateV3(tok, body) ==
    LET staffUser == FindOne(User, [rollNumber |-> tok.rollNumber])
        req == [op |-> "owner/attendance/by-date", tok |-> tok, body |-> body]
        Reply(res) == last' = req @@ [res |-> res]
    IN
    /\ variant = "v3"
    /\ tok \in tokens
    /\ IF ~requireOwnerOrStaff(tok)
       THEN Reply(Reply403)
       ELSE IF Falsy(body, "className") \/ Falsy(body, "date")
       THEN Reply(Reply400)
       ELSE IF tok.role = "staff"
               /\ (staffUser = Null \/ Falsy(staffUser, "monitorClass"))
       THEN Reply(Reply403)
       ELSE IF tok.role = "staff" /\ StaffOtherClass(staffUser, body)
       THEN Reply(Reply403)
       ELSE Reply(Reply200(TRUE)
                  @@ [records |-> FindRecords(Attendance, ByDateFilter(body))])
    /\ UNCHANGED <<variant, today, tokens, User, ClassModel, Attendance,
                   AttendanceRequest, Marks, inflight>>

\* requireOwner, lines 1063-1066
requireOwner(tok) == tok.role = "owner"

Reply404 == [code |-> 404, success |-> FALSE]

\* if(u.role === "owner") return "Cannot change owner role"
OwnerLockOff(u) == FALSE
OwnerLock(u) == u.role = "owner"

\* ["student","staff"].includes(role)
Assignable(body) == Has(body, "role") /\ body.role \in {"student", "staff"}

\* the fields the role route saves: u.role = role;
\* u.monitorClass = role === "staff" ? (monitorClass || null) : null
RoleFieldsV3(u, body) ==
    LET kept == [f \in DOMAIN u \ {"monitorClass"} |-> u[f]]
    IN  [role |-> body.role]
        @@ (IF body.role = "staff" /\ ~Falsy(body, "monitorClass")
            THEN [monitorClass |-> body.monitorClass] ELSE <<>>)
        @@ kept

\* POST /owner/user/:rollNumber/role, third iteration
OwnerUserRoleV3(tok, rollNumber, body) ==
    LET filter == [rollNumber |-> rollNumber]
        u == FindOne(User, filter)
        req == [op |-> "owner/user/role", tok |-> tok, rollNumber |-> rollNumber,
                body |-> body]
        Reply(res) == last' = req @@ [res |-> res]
    IN
    /\ variant = "v3"
    /\ tok \in tokens
    /\ IF ~requireOwner(tok)
       THEN Reply(Reply403) /\ UNCHANGED User
       ELSE IF u = Null
       THEN Reply(Reply404) /\ UNCHANGED User
       ELSE IF OwnerLock(u)
       THEN Reply(Reply200(FALSE)) /\ UNCHANGED User
       ELSE IF ~Assignable(body)
       THEN Reply(Reply400) /\ UNCHANGED User
       ELSE /\ User' = [User EXCEPT ![MinOf(Indices(User, filter))] =
                            RoleFieldsV3(u, body)]
            /\ Reply(Reply200(TRUE))
    /\ UNCHANGED <<variant, today, tokens, ClassModel, Attendance,
                   AttendanceRequest, Marks, inflight>>

\* req.body of /owner/attendance, third iteration: any string is a status, and
\* fields may be missing
BodiesV3 ==
    BodiesV23
    \cup {[rollNumber |-> "r1", className |-> "c1", date |-> "2024-01-01"],
          [className |-> "c2", date |-> "2024-01-01", status |-> "Present"],
          [rollNumber |-> "r1", className |-> "c1", status |-> "Late",
           date |-> "2024-01-01"]}

\* req.body of /owner/user/:rollNumber/role
RoleBodiesV3 ==
    {[role |-> "student"],
     [role |-> "staff", monitorClass |-> "c1"],
     [role |-> "staff", monitorClass |-> "c2"],
     [role |-> "staff"],
     [role |-> "owner"]}

NextV3 ==
    \/ \E tok \in tokens, body \in BodiesV3 : OwnerAttendanceV3(tok, body)
    \/ \E tok \in tokens, body \in ByDateBodies :
           OwnerAttendanceByDateV3(tok, body)
    \/ \E tok \in tokens, rollNumber \in {"o1", "t1"}, body \in RoleBodiesV3 :
           OwnerUserRoleV3(tok, rollNumber, body)

----------------------------------------------------------------------------
(* any one of the four iterations, requests handled one at a time *)

Init == InitFace \/ InitV1 \/ InitV2 \/ InitV3

Next == NextFace \/ NextV1 \/ NextV2 \/ NextV3

Spec == Init /\ [][Next]_vars

----------------------------------------------------------------------------
(* properties of the attendance writes of all four iterations *)

\* the fields an attendance record is unique on, per iteration
KeyFields ==
    CASE variant = "face" -> {"rollNumber", "date"}
      [] variant = "v1" -> {"email", "date"}
      [] OTHER -> {"rollNumber", "className", "date"}

SameKey(a, b) == \A f \in KeyFields : a[f] = b[f]

\* C7: whatever attendance writes have run (auto marking, manual marking,
\* decisions, repeated ones included), no two attendance records share the
\* uniqueness key of the iteration
C7_OneRecordPerKey ==
    \A i, j \in 1..Len(Attendance) :
        SameKey(Attendance[i], Attendance[j]) => i = j

\* face iteration: a request was decided, which wrote the record of its
\* (rollNumber, date), and /attendance/auto wrote the same key afterwards
C7_Witness ==
    /\ variant = "face"
    /\ \E r \in 1..Len(AttendanceRequest), a \in 1..Len(Attendance) :
           /\ AttendanceRequest[r].status \in Decided
           /\ SameKey(AttendanceRequest[r], Attendance[a])
           /\ Attendance[a].markedBy = "auto"

\* request l is an attendance write the handler lets through: the caller may
\* write, the body is complete and, where the schema has an enum, valid
ValidSubmission(l, users, classes, requests) ==
    CASE variant = "face" ->
           \/ /\ Locatable(l, users, classes)
              /\ Meters(l, ClassOf(l, users, classes))
                     <= ClassOf(l, users, classes).radius
           \/ DecisionOn(l, requests)
      [] variant = "v1" ->
           /\ l.op = "owner/attendance"
           /\ l.tok.role = "owner"
           /\ {"email", "className", "status", "date"} \subseteq DOMAIN l.body
           /\ l.body.status \in {"Present", "Absent"}
      [] variant = "v2" ->
           /\ l.op = "owner/attendance"
           /\ LET me == CallerOf(l, users)
              IN  \/ me.role = "owner"
                  \/ me.role = "staff" /\ l.body.className \in me.monitorClasses
      [] OTHER ->
           /\ l.op = "owner/attendance"
           /\ {"rollNumber", "className", "status", "date"} \subseteq DOMAIN l.body
           /\ \/ l.tok.role = "owner"
              \/ /\ l.tok.role = "staff"
                 /\ Has(CallerOf(l, users), "monitorClass")
                 /\ CallerOf(l, users).monitorClass = l.body.className

\* the uniqueness key a valid submission writes
SubmittedKey(l, day, requests) ==
    IF l.op = "attendance/auto"
    THEN [rollNumber |-> l.tok.rollNumber, date |-> day]
    ELSE IF l.op = "owner/attendance/decision"
    THEN [rollNumber |-> requests[l.body.requestId].rollNumber,
          date |-> requests[l.body.requestId].date]
    ELSE [f \in KeyFields |-> l.body[f]]

\* the status a valid submission carries
SubmittedStatus(l) ==
    IF l.op = "attendance/auto" THEN "Present"
    ELSE IF l.op = "owner/attendance/decision"
    THEN (IF l.body.approve THEN "Present" ELSE "Absent")
    ELSE l.body.status

\* the response that accepts a submission
Accepted(l) ==
    IF l.op = "attendance/auto" THEN l.res = ResAuto(TRUE)
    ELSE IF l.op = "owner/attendance/decision" THEN l.res = ResOk
    ELSE l.res = Reply200(TRUE)

StatusSet == {"Present", "Absent", "On Duty", "Leave"}

\* C17: every stored attendance record has a status of the closed set
\* Present, Absent, On Duty, Leave
C17_StatusInClosedSet ==
    \A i \in 1..Len(Attendance) : Attendance[i].status \in StatusSet

\* request l is an attendance write or a by-date read of the second or third
\* iteration by a staff caller for a class that is not assigned to the caller:
\* not in the stored monitorClasses (v2); the stored monitorClass unset or
\* another class (v3)
StaffOutsideClass(l, users) ==
    LET me == FindOne(users, [rollNumber |-> l.tok.rollNumber])
    IN  /\ variant \in {"v2", "v3"}
        /\ l.op \in {"owner/attendance", "owner/attendance/by-date"}
        /\ me # Null
        /\ IF variant = "v2"
           THEN /\ me.role = "staff"
                /\ (~Has(l.body, "className")
                     \/ l.body.className \notin me.monitorClasses)
           ELSE /\ l.tok.role = "staff"
                /\ Has(l.body, "className")
                /\ (~Has(me, "monitorClass")
                     \/ me.monitorClass # l.body.className)

\* the body of request l lacks a field the third iteration asks for
MissingFieldsV3(l) ==
    \E f \in (IF l.op = "owner/attendance"
              THEN {"rollNumber", "className", "date", "status"}
              ELSE {"className", "date"}) : Falsy(l.body, f)

\* C19, as claimed: a staff caller's write or read for a class that is not
\* assigned to the caller is answered 403 and changes no attendance record
C19_StaffOutsideClassGets403 ==
    [][ StaffOutsideClass(last', User')
        => last'.res = Reply403 /\ Attendance' = Attendance ]_vars

\* C19, amended: such a request changes no attendance record and is answered
\* 403, except that the third iteration answers 400 when the body lacks a
\* field, which it tests before the staff restriction
C19_StaffOutsideClassRefused ==
    [][ StaffOutsideClass(last', User')
        => /\ Attendance' = Attendance
           /\ last'.res = IF variant = "v3" /\ MissingFieldsV3(last')
                           THEN Reply400 ELSE Reply403 ]_vars

\* third iteration: the owner moved the staff member t1 to class c2, and t1's
\* write for c1, a class that has records, was answered 403
C19_Witness ==
    /\ variant = "v3"
    /\ StaffOutsideClass(last, User)
    /\ last.op = "owner/attendance"
    /\ ~MissingFieldsV3(last)
    /\ last.body.className = "c1"
    /\ Matches(FindOne(User, [rollNumber |-> last.tok.rollNumber]),
               [monitorClass |-> "c2"])
    /\ Len(Attendance) > 0
    /\ last.res = Reply403

----------------------------------------------------------------------------
(* concurrent requests: the upserts of several handlers in flight at once *)

\* second iteration, lines 523-530
calcGradePoint(total) ==
    IF total >= 90 THEN 10
    ELSE IF total >= 80 THEN 9
    ELSE IF total >= 70 THEN 8
    ELSE IF total >= 60 THEN 7
    ELSE IF total >= 50 THEN 6
    ELSE 0

\* the document /owner/marks of the second iteration upserts, lines 894-901
\* Number(x||0) for a component of the body: an omitted component counts 0
Component(body, f) == IF Has(body, f) THEN body[f] ELSE 0

MarksFieldsV2(body) ==
    LET total == Component(body, "internal") + Component(body, "assessment")
                   + Component(body, "exam")
    IN  body @@ [total |-> total, gradePoint |-> calcGradePoint(total)]

\* The database writes the handlers of the deployed iteration issue for one
\* attendance key and one marks key, once the caller and the body have passed
\* the handler's checks.  `unique` says whether the collection has a unique
\* index on the fields of the filter.
ConcWrites ==
    CASE variant = "face" ->
           {[coll |-> "attendance", kind |-> "upsert", unique |-> FALSE,
             filter |-> [rollNumber |-> "r1", date |-> today],
             fields |-> AutoRecord(User[3], today)]}
      [] variant = "v1" ->
           {[coll |-> "attendance", kind |-> "create", unique |-> TRUE,
             filter |-> [email |-> "s1@x.in", date |-> "2024-01-01"],
             fields |-> [className |-> "c1", status |-> st]] :
                st \in {"Present", "Absent"}}
           \cup
           {[coll |-> "marks", kind |-> "upsert", unique |-> TRUE,
             filter |-> [email |-> "s1@x.in", subject |-> "maths"],
             fields |-> [marks |-> m]] : m \in {40, 90}}
      [] variant = "v2" ->
           {[coll |-> "attendance", kind |-> "upsert", unique |-> FALSE,
             filter |-> AttendanceKey(b), fields |-> b] :
                b \in {x \in BodiesV23 : x.className = "c1"}}
           \cup
           {[coll |-> "marks", kind |-> "upsert", unique |-> FALSE,
             filter |-> [rollNumber |-> "r1", className |-> "c1",
                         subject |-> "maths"],
             fields |-> MarksFieldsV2([internal |-> 20, assessment |-> 10,
                                       exam |-> e])] : e \in {15, 45}}
      [] OTHER ->
           {[coll |-> "attendance", kind |-> "upsert", unique |-> TRUE,
             filter |-> AttendanceKey(b), fields |-> b] :
                b \in {x \in BodiesV23 : x.className = "c1"}}
           \cup
           {[coll |-> "marks", kind |-> "upsert", unique |-> TRUE,
             filter |-> [rollNumber |-> "r1", subject |-> "maths"],
             fields |-> [marks |-> m]] : m \in {40, 90}}

Coll(name) == IF name = "attendance" THEN Attendance ELSE Marks

\* A handler reaches its write: the database runs the query of the upsert and
\* finds the document to update, or none.  A create has no query.
BeginWrite(w) ==
    /\ Len(inflight) < MaxInflight
    /\ inflight' =
           Append(inflight,
                  w @@ [found |->
                           IF w.kind = "upsert"
                                /\ Indices(Coll(w.coll), w.filter) # {}
                           THEN MinOf(Indices(Coll(w.coll), w.filter))
                           ELSE 0])
    /\ UNCHANGED <<variant, today, tokens, User, ClassModel, Attendance,
                   AttendanceRequest, Marks, last>>

Remove(seq, k) == [i \in 1..(Len(seq) - 1) |-> IF i < k THEN seq[i] ELSE seq[i + 1]]

\* the collection after the write of w that found no document to update: an
\* insert, which a unique index refuses when the key has been taken meanwhile
InsertOf(coll, w) ==
    IF w.unique /\ Indices(coll, w.filter) # {}
    THEN {coll} \cup
         (IF w.kind = "upsert"
          THEN {[coll EXCEPT ![MinOf(Indices(coll, w.filter))] = w.fields @@ @]}
          ELSE {})
    ELSE {Append(coll, w.fields @@ w.filter)}

\* the collection after the write of w
WriteOf(coll, w) ==
    IF w.found > 0 THEN {[coll EXCEPT ![w.found] = w.fields @@ @]}
    ELSE InsertOf(coll, w)

\* The database applies the write of the k-th request in flight.
FinishWrite(k) ==
    LET w == inflight[k]
    IN  /\ inflight' = Remove(inflight, k)
        /\ IF w.coll = "attendance"
           THEN Attendance' \in WriteOf(Attendance, w) /\ UNCHANGED Marks
           ELSE Marks' \in WriteOf(Marks, w) /\ UNCHANGED Attendance
        /\ UNCHANGED <<variant, today, tokens, User, ClassModel,
                       AttendanceRequest, last>>

NextConc ==
    \/ \E w \in ConcWrites : BeginWrite(w)
    \/ \E k \in 1..Len(inflight) : FinishWrite(k)

SpecConc == Init /\ [][NextConc]_vars

\* the fields a marks record is unique on, per iteration
MarksKeyFields ==
    CASE variant = "v1" -> {"email", "subject"}
      [] variant = "v2" -> {"rollNumber", "className", "subject"}
      [] OTHER -> {"rollNumber", "subject"}

\* C9: however concurrent writes for one key interleave, the key never has
\* two attendance records or two marks records
C9_ConcurrentWritesConverge ==
    /\ \A i, j \in 1..Len(Attendance) :
           SameKey(Attendance[i], Attendance[j]) => i = j
    /\ \A i, j \in 1..Len(Marks) :
           (\A f \in MarksKeyFields : Marks[i][f] = Marks[j][f]) => i = j

----------------------------------------------------------------------------
(* part_000: decisions on one request in flight at once.  The handler gives *)
(* way at each await: after findById, after r.save() and after the upsert.  *)

\* a request /attendance/auto left pending, for the student of the class
InitDecision ==
    /\ variant = "face"
    /\ today = "2024-01-01"
    /\ User \in FaceUsers
    /\ tokens = {token(User[i]) : i \in 1..Len(User)}
    /\ ClassModel = FaceClasses
    /\ Attendance = <<>>
    /\ AttendanceRequest = <<AutoRequest(User[3], today, <<>>)>>
    /\ Marks = <<>>
    /\ inflight = <<>>
    /\ last = NoRequest

\* the role test and const r = await AttendanceRequest.findById(requestId)
DecisionLoad(tok, body) ==
    LET r == FindById(AttendanceRequest, body.requestId)
        req == [op |-> "owner/attendance/decision", tok |-> tok, body |-> body]
    IN
    /\ variant = "face"
    /\ tok \in tokens
    /\ Len(inflight) < MaxInflight
    /\ IF ~OwnerOrStaff(tok) \/ r = Null
       THEN last' = req @@ [res |-> ResFail] /\ UNCHANGED inflight
       ELSE /\ inflight' = Append(inflight, req @@ [r |-> r, pc |-> "save"])
            /\ UNCHANGED last
    /\ UNCHANGED <<variant, today, tokens, User, ClassModel, Attendance,
                   AttendanceRequest, Marks>>

\* r.status = approve ? "approved":"rejected"; await r.save()
DecisionSave(k) ==
    /\ k \in 1..Len(inflight)
    /\ inflight[k].pc = "save"
    /\ AttendanceRequest' =
           [AttendanceRequest EXCEPT ![inflight[k].body.requestId] =
               [status |-> DecisionStatus(inflight[k].body.approve)] @@ @]
    /\ inflight' = [inflight EXCEPT ![k] = [pc |-> "upsert"] @@ @]
    /\ UNCHANGED <<variant, today, tokens, User, ClassModel, Attendance,
                   Marks, last>>

\* await Attendance.findOneAndUpdate(..., { upsert:true }) and the answer
DecisionUpsert(k) ==
    LET w == inflight[k]
        key == [rollNumber |-> w.r.rollNumber, date |-> w.r.date]
    IN
    /\ k \in 1..Len(inflight)
    /\ w.pc = "upsert"
    /\ Attendance' = Upsert(Attendance, key,
                            DecisionRecord(w.r, w.body.approve, w.tok))
    /\ inflight' = Remove(inflight, k)
    /\ last' = [op |-> w.op, tok |-> w.tok, body |-> w.body, res |-> ResOk]
    /\ UNCHANGED <<variant, today, tokens, User, ClassModel,
                   AttendanceRequest, Marks>>

NextDecision ==
    \/ \E tok \in tokens, body \in DecisionBodies : DecisionLoad(tok, body)
    \/ \E k \in 1..MaxInflight : DecisionSave(k)
    \/ \E k \in 1..MaxInflight : DecisionUpsert(k)

SpecDecision == InitDecision /\ [][NextDecision]_vars

\* the attendance status that goes with a decided request
RecordStatusOf(status) == IF status = "approved" THEN "Present" ELSE "Absent"

\* C24: once the decision calls on a request have all completed, the
\* attendance record of the request's student and date has the status that
\* goes with the request's final status, also when an approve and a reject
\* of the same request ran at the same time
C24_RecordAgreesWithRequest ==
    inflight = <<>>
    => \A i \in 1..Len(AttendanceRequest) :
           LET r == AttendanceRequest[i]
               rec == FindOne(Attendance,
                              [rollNumber |-> r.rollNumber, date |-> r.date])
           IN  r.status # "pending"
               => rec # Null /\ rec.status = RecordStatusOf(r.status)

----------------------------------------------------------------------------
(* marks of the second iteration *)

MarksComponents == {"internal", "assessment", "exam"}

\* req.body of /owner/marks: all three components, or one of them left out
MarksBodies ==
    LET full == [rollNumber : {"r1"}, className : {"c1", "c2"},
                 subject : {"maths"}, internal : {20}, assessment : {10},
                 exam : {15, 45}]
        Without(b, f) == [g \in DOMAIN b \ {f} |-> b[g]]
    IN  full \cup {Without(b, f) : b \in full, f \in {"internal", "exam"}}

\* What Mongoose makes of an undefined value in the update document of
\* findOneAndUpdate: the key is removed from the update (and a missing schema
\* default is set on insert), or the field is set to null.  Which one depends
\* on the installed Mongoose version, which the repository does not pin.
UndefinedKeys == {"removed", "null"}

\* Marks.findOneAndUpdate({ rollNumber, className, subject }, { ..., internal,
\* assessment, exam, total, gradePoint }, { upsert:true }).  A null component
\* is a record without the field.
UpsertMarks(coll, body, undefinedAs) ==
    LET filter == [f \in {"rollNumber", "className", "subject"} |-> body[f]]
        fields == MarksFieldsV2(body)
        omitted == MarksComponents \ DOMAIN body
        defaults == [f \in omitted |-> 0]
        k == MinOf(Indices(coll, filter))
        merged == fields @@ coll[k]
    IN  IF Indices(coll, filter) = {}
        THEN Append(coll, IF undefinedAs = "removed" THEN fields @@ defaults
                          ELSE fields)
        ELSE [coll EXCEPT ![k] =
                 IF undefinedAs = "removed" THEN merged
                 ELSE [f \in DOMAIN merged \ omitted |-> merged[f]]]

\* POST /owner/marks, second iteration
OwnerMarksV2(tok, body, undefinedAs) ==
    LET me == FindOne(User, [rollNumber |-> tok.rollNumber])
        req == [op |-> "owner/marks", tok |-> tok, body |-> body]
        Reply(res) == last' = req @@ [res |-> res]
    IN
    /\ variant = "v2"
    /\ tok \in tokens
    /\ IF me = Null
       THEN Reply(Reply200(FALSE)) /\ UNCHANGED Marks
       ELSE IF me.role # "owner" /\ me.role # "staff"
       THEN Reply(Reply403) /\ UNCHANGED Marks
       ELSE IF me.role = "staff" /\ body.className \notin me.monitorClasses
       THEN Reply(Reply403) /\ UNCHANGED Marks
       ELSE /\ Marks' = UpsertMarks(Marks, body, undefinedAs)
            /\ Reply(Reply200(TRUE))
    /\ UNCHANGED <<variant, today, tokens, User, ClassModel, Attendance,
                   AttendanceRequest, inflight>>

NextMarks ==
    \E tok \in tokens, body \in MarksBodies, undefinedAs \in UndefinedKeys :
        OwnerMarksV2(tok, body, undefinedAs)

SpecMarks == InitV2 /\ [][NextMarks]_vars

\* C22: in the second iteration every stored marks record has total =
\* internal + assessment + exam and gradePoint = calcGradePoint(total), also
\* after a write that leaves components out for a key that already exists
C22_TotalIsSumOfComponents ==
    variant = "v2"
    => \A i \in 1..Len(Marks) :
           /\ Marks[i].total = Component(Marks[i], "internal")
                                 + Component(Marks[i], "assessment")
                                 + Component(Marks[i], "exam")
           /\ Marks[i].gradePoint = calcGradePoint(Marks[i].total)

----------------------------------------------------------------------------
(* user administration: signup, add-user and role assignment, starting from *)
(* an empty users collection                                               *)

\* const role = count === 0 ? "owner" : "student"
SignupRoleStudent(count) == "student"
SignupRole(count) == IF count = 0 THEN "owner" ELSE "student"

\* req.body of /signup and /owner/add-user.  Emails are lower case and well
\* formed; the last body has no password.
SignupBodies ==
    [name : {"n"}, email : {"a@x.in", "b@x.in"}, rollNumber : {"u1", "u2"},
     password : {"pw"}]
    \cup {[name |-> "n", email |-> "a@x.in", rollNumber |-> "u1"]}

\* POST /signup, part_000: no field is tested; bcrypt.hash(undefined) rejects
SignupFace(body) ==
    LET req == [op |-> "signup", body |-> body]
        count == Len(User)
        user == [email |-> body.email, rollNumber |-> body.rollNumber,
                 role |-> SignupRole(count), faceDescriptor |-> <<>>]
        Reply(res) == last' = req @@ [res |-> res]
    IN
    /\ variant = "face"
    /\ Len(User) < MaxUsers
    /\ IF ~Has(body, "password")
       THEN Reply(Threw) /\ UNCHANGED <<User, tokens>>
       ELSE /\ User' = Append(User, user)
            /\ tokens' = tokens \cup {token(user)}
            /\ Reply(ResOk @@ [user |-> user])
    /\ UNCHANGED <<variant, today, ClassModel, Attendance, AttendanceRequest,
                   Marks, inflight>>

\* POST /signup, first iteration
SignupV1(body) ==
    LET req == [op |-> "signup", body |-> body]
        userCount == Len(User)
        user == [email |-> body.email, role |-> SignupRole(userCount)]
        Reply(res) == last' = req @@ [res |-> res]
    IN
    /\ variant = "v1"
    /\ Len(User) < MaxUsers
    /\ IF \E f \in {"name", "email", "password"} : Falsy(body, f)
       THEN Reply(Reply400) /\ UNCHANGED <<User, tokens>>
       ELSE IF FindOne(User, [email |-> body.email]) # Null
       THEN Reply(Reply200(FALSE)) /\ UNCHANGED <<User, tokens>>
       ELSE /\ User' = Append(User, user)
            /\ tokens' = tokens \cup {tokenV1(user)}
            /\ Reply(Reply200(TRUE) @@ [user |-> user])
    /\ UNCHANGED <<variant, today, ClassModel, Attendance, AttendanceRequest,
                   Marks, inflight>>

\* the four fields /signup and /owner/add-user ask for, second and third
\* iteration
MissingSignupField(body) ==
    \E f \in {"name", "email", "rollNumber", "password"} : Falsy(body, f)

\* POST /signup, second iteration
SignupV2(body) ==
    LET req == [op |-> "signup", body |-> body]
        count == Len(User)
        user == [email |-> body.email, rollNumber |-> body.rollNumber,
                 passwordHash |-> body.password,
                 role |-> SignupRole(count), monitorClasses |-> {}]
        Reply(res) == last' = req @@ [res |-> res]
    IN
    /\ variant = "v2"
    /\ Len(User) < MaxUsers
    /\ IF MissingSignupField(body)
       THEN Reply(Reply400) /\ UNCHANGED <<User, tokens>>
       ELSE IF FindOne(User, [email |-> body.email]) # Null
       THEN Reply(Reply200(FALSE)) /\ UNCHANGED <<User, tokens>>
       ELSE IF FindOne(User, [rollNumber |-> body.rollNumber]) # Null
       THEN Reply(Reply200(FALSE)) /\ UNCHANGED <<User, tokens>>
       ELSE /\ User' = Append(User, user)
            /\ tokens' = tokens \cup {createToken(user, Len(User) + 1)}
            /\ Reply(Reply200(TRUE) @@ [user |-> user])
    /\ UNCHANGED <<variant, today, ClassModel, Attendance, AttendanceRequest,
                   Marks, inflight>>

\* POST /signup, third iteration
SignupV3(body) ==
    LET req == [op |-> "signup", body |-> body]
        count == Len(User)
        user == [email |-> body.email, rollNumber |-> body.rollNumber,
                 passwordHash |-> body.password,
                 role |-> SignupRole(count)]
        Reply(res) == last' = req @@ [res |-> res]
    IN
    /\ variant = "v3"
    /\ Len(User) < MaxUsers
    /\ IF MissingSignupField(body)
       THEN Reply(Reply400) /\ UNCHANGED <<User, tokens>>
       ELSE IF FindOne(User, [email |-> body.email]) # Null
       THEN Reply(Reply200(FALSE)) /\ UNCHANGED <<User, tokens>>
       ELSE IF FindOne(User, [rollNumber |-> body.rollNumber]) # Null
       THEN Reply(Reply200(FALSE)) /\ UNCHANGED <<User, tokens>>
       ELSE /\ User' = Append(User, user)
            /\ tokens' = tokens \cup {createToken(user, Len(User) + 1)}
            /\ Reply(Reply200(TRUE) @@ [user |-> user])
    /\ UNCHANGED <<variant, today, ClassModel, Attendance, AttendanceRequest,
                   Marks, inflight>>

\* POST /owner/add-user, first iteration
OwnerAddUserV1(tok, body) ==
    LET req == [op |-> "owner/add-user", tok |-> tok, body |-> body]
        user == [email |-> body.email, role |-> "student"]
        Reply(res) == last' = req @@ [res |-> res]
    IN
    /\ variant = "v1"
    /\ tok \in tokens
    /\ Len(User) < MaxUsers
    /\ IF tok.role # "owner"
       THEN Reply(Reply403) /\ UNCHANGED User
       ELSE IF \E f \in {"name", "email", "password"} : Falsy(body, f)
       THEN Reply(Reply400) /\ UNCHANGED User
       ELSE IF FindOne(User, [email |-> body.email]) # Null
       THEN Reply(Reply200(FALSE)) /\ UNCHANGED User
       ELSE User' = Append(User, user) /\ Reply(Reply200(TRUE))
    /\ UNCHANGED <<variant, today, tokens, ClassModel, Attendance,
                   AttendanceRequest, Marks, inflight>>

\* POST /owner/add-user, second iteration
OwnerAddUserV2(tok, body) ==
    LET me == FindOne(User, [rollNumber |-> tok.rollNumber])
        req == [op |-> "owner/add-user", tok |-> tok, body |-> body]
        user == [email |-> body.email, rollNumber |-> body.rollNumber,
                 passwordHash |-> body.password,
                 role |-> "student", monitorClasses |-> {}]
        Reply(res) == last' = req @@ [res |-> res]
    IN
    /\ variant = "v2"
    /\ tok \in tokens
    /\ Len(User) < MaxUsers
    /\ IF me = Null \/ me.role # "owner"
       THEN Reply(Reply403) /\ UNCHANGED User
       ELSE IF MissingSignupField(body)
       THEN Reply(Reply200(FALSE)) /\ UNCHANGED User
       ELSE IF FindOne(User, [email |-> body.email]) # Null
       THEN Reply(Reply200(FALSE)) /\ UNCHANGED User
       ELSE IF FindOne(User, [rollNumber |-> body.rollNumber]) # Null
       THEN Reply(Reply200(FALSE)) /\ UNCHANGED User
       ELSE User' = Append(User, user) /\ Reply(Reply200(TRUE))
    /\ UNCHANGED <<variant, today, tokens, ClassModel, Attendance,
                   AttendanceRequest, Marks, inflight>>

\* POST /owner/add-user, third iteration
OwnerAddUserV3(tok, body) ==
    LET req == [op |-> "owner/add-user", tok |-> tok, body |-> body]
        user == [email |-> body.email, rollNumber |-> body.rollNumber,
                 passwordHash |-> body.password,
                 role |-> "student"]
        Reply(res) == last' = req @@ [res |-> res]
    IN
    /\ variant = "v3"
    /\ tok \in tokens
    /\ Len(User) < MaxUsers
    /\ IF ~requireOwner(tok)
       THEN Reply(Reply403) /\ UNCHANGED User
       ELSE IF MissingSignupField(body)
       THEN Reply(Reply400) /\ UNCHANGED User
       ELSE IF FindOne(User, [email |-> body.email]) # Null
               \/ FindOne(User, [rollNumber |-> body.rollNumber]) # Null
       THEN Reply(Reply200(FALSE)) /\ UNCHANGED User
       ELSE User' = Append(User, user) /\ Reply(Reply200(TRUE))
    /\ UNCHANGED <<variant, today, tokens, ClassModel, Attendance,
                   AttendanceRequest, Marks, inflight>>

\* req.body of /profile: a new roll number, or only a new name
ProfileBodies ==
    {[rollNumber |-> "u1"], [rollNumber |-> "u2"], [name |-> "m"]}

\* if(rollNumber) user.rollNumber = rollNumber; the other profile fields play
\* no part in any check
ProfileFields(body) ==
    IF Falsy(body, "rollNumber") THEN <<>>
    ELSE [rollNumber |-> body.rollNumber]

\* POST /profile, second iteration
ProfileV2(tok, body) ==
    LET filter == [rollNumber |-> tok.rollNumber]
        user == FindOne(User, filter)
        req == [op |-> "profile", tok |-> tok, body |-> body]
        Reply(res) == last' = req @@ [res |-> res]
    IN
    /\ variant = "v2"
    /\ tok \in tokens
    /\ IF user = Null
       THEN Reply(Reply200(FALSE)) /\ UNCHANGED User
       ELSE /\ User' = UpdateOne(User, filter, ProfileFields(body))
            /\ Reply(Reply200(TRUE))
    /\ UNCHANGED <<variant, today, tokens, ClassModel, Attendance,
                   AttendanceRequest, Marks, inflight>>

\* POST /profile, third iteration
ProfileV3(tok, body) ==
    LET filter == [rollNumber |-> tok.rollNumber]
        user == FindOne(User, filter)
        req == [op |-> "profile", tok |-> tok, body |-> body]
        Reply(res) == last' = req @@ [res |-> res]
    IN
    /\ variant = "v3"
    /\ tok \in tokens
    /\ IF user = Null
       THEN Reply(Reply404) /\ UNCHANGED User
       ELSE /\ User' = UpdateOne(User, filter, ProfileFields(body))
            /\ Reply(Reply200(TRUE))
    /\ UNCHANGED <<variant, today, tokens, ClassModel, Attendance,
                   AttendanceRequest, Marks, inflight>>

\* req.body of /login: a roll number or an email (one of them typed in upper
\* case), with the right or a wrong password, or with no password
LoginBodies ==
    [loginId : {"u1", "u2", "b@x.in", "A@X.IN"}, password : {"pw", "zz"}]
    \cup {[loginId |-> "u1"]}

\* loginId.toLowerCase(), on the login ids above
toLowerCase(str) == IF str = "A@X.IN" THEN "a@x.in" ELSE str

\* User.findOne({ $or: [{ email: loginId.toLowerCase() }, { rollNumber:
\* loginId }, { name: loginId }] }): no stored name is a login id above
FindLogin(loginId) ==
    LET found == Indices(User, [email |-> toLowerCase(loginId)])
                   \cup Indices(User, [rollNumber |-> loginId])
    IN  IF found = {} THEN 0 ELSE MinOf(found)

\* bcrypt.compare(password, user.passwordHash): true for the password that
\* was hashed
Compare(password, passwordHash) == password = passwordHash

\* POST /login, second iteration
LoginV2(body) ==
    LET req == [op |-> "login", body |-> body]
        id == FindLogin(body.loginId)
        Reply(res) == last' = req @@ [res |-> res]
    IN
    /\ variant = "v2"
    /\ IF Falsy(body, "loginId") \/ Falsy(body, "password")
       THEN Reply(Reply400) /\ UNCHANGED tokens
       ELSE IF id = 0
       THEN Reply(Reply200(FALSE)) /\ UNCHANGED tokens
       ELSE IF ~Compare(body.password, User[id].passwordHash)
       THEN Reply(Reply200(FALSE)) /\ UNCHANGED tokens
       ELSE /\ tokens' = tokens \cup {createToken(User[id], id)}
            /\ Reply(Reply200(TRUE))
    /\ UNCHANGED <<variant, today, User, ClassModel, Attendance,
                   AttendanceRequest, Marks, inflight>>

\* POST /login, third iteration
LoginV3(body) ==
    LET req == [op |-> "login", body |-> body]
        id == FindLogin(body.loginId)
        Reply(res) == last' = req @@ [res |-> res]
    IN
    /\ variant = "v3"
    /\ IF Falsy(body, "loginId") \/ Falsy(body, "password")
       THEN Reply(Reply400) /\ UNCHANGED tokens
       ELSE IF id = 0
       THEN Reply(Reply200(FALSE)) /\ UNCHANGED tokens
       ELSE IF ~Has(User[id], "passwordHash")
       THEN Reply(Reply200(FALSE)) /\ UNCHANGED tokens
       ELSE IF ~Compare(body.password, User[id].passwordHash)
       THEN Reply(Reply200(FALSE)) /\ UNCHANGED tokens
       ELSE /\ tokens' = tokens \cup {createToken(User[id], id)}
            /\ Reply(Reply200(TRUE))
    /\ UNCHANGED <<variant, today, User, ClassModel, Attendance,
                   AttendanceRequest, Marks, inflight>>

\* req.body of /owner/class
ClassBodies == {[name |-> "c1"], [name |-> ""]}

\* POST /owner/class, second iteration; /owner/subject guards its caller with
\* the same two lines
OwnerClassV2(tok, body) ==
    LET me == FindOne(User, [rollNumber |-> tok.rollNumber])
        req == [op |-> "owner/class", tok |-> tok, body |-> body]
        Reply(res) == last' = req @@ [res |-> res]
    IN
    /\ variant = "v2"
    /\ tok \in tokens
    /\ IF me = Null \/ me.role # "owner"
       THEN Reply(Reply403) /\ UNCHANGED ClassModel
       ELSE IF Falsy(body, "name")
       THEN Reply(Reply200(FALSE)) /\ UNCHANGED ClassModel
       ELSE IF FindOne(ClassModel, [name |-> body.name]) # Null
       THEN Reply(Reply200(FALSE)) /\ UNCHANGED ClassModel
       ELSE /\ ClassModel' = Append(ClassModel, [name |-> body.name])
            /\ Reply(Reply200(TRUE))
    /\ UNCHANGED <<variant, today, tokens, User, Attendance,
                   AttendanceRequest, Marks, inflight>>

\* req.body of /owner/user/:rollNumber/role, any role string
RoleBodies ==
    {[role |-> "student"],
     [role |-> "staff", monitorClass |-> "c1", monitorClasses |-> {"c1"}],
     [role |-> "owner"],
     [role |-> "admin"]}

InitUsers ==
    /\ variant \in {"face", "v1", "v2", "v3"}
    /\ today = "2024-01-01"
    /\ User = <<>>
    /\ tokens = {}
    /\ ClassModel = <<>>
    /\ Attendance = <<>>
    /\ AttendanceRequest = <<>>
    /\ Marks = <<>>
    /\ inflight = <<>>
    /\ last = NoRequest

NextUsers ==
    \/ \E body \in SignupBodies : SignupFace(body)
    \/ \E body \in SignupBodies : SignupV1(body)
    \/ \E body \in SignupBodies : SignupV2(body)
    \/ \E body \in SignupBodies : SignupV3(body)
    \/ \E tok \in tokens, body \in SignupBodies : OwnerAddUserV1(tok, body)
    \/ \E tok \in tokens, body \in SignupBodies : OwnerAddUserV2(tok, body)
    \/ \E tok \in tokens, body \in SignupBodies : OwnerAddUserV3(tok, body)
    \/ \E tok \in tokens, rollNumber \in {"u1", "u2"}, body \in RoleBodies :
           OwnerUserRoleV2(tok, rollNumber, body)
    \/ \E tok \in tokens, rollNumber \in {"u1", "u2"}, body \in RoleBodies :
           OwnerUserRoleV3(tok, rollNumber, body)
    \/ \E tok \in tokens, body \in ProfileBodies : ProfileV2(tok, body)
    \/ \E tok \in tokens, body \in ProfileBodies : ProfileV3(tok, body)

SpecUsers == InitUsers /\ [][NextUsers]_vars

\* Signups in flight at once.  A handler gives way at each await; here it
\* runs its tests and User.countDocuments() in one step and User.create in a
\* later one, with the count it read.

\* the user /signup creates for a body, with the role it computed
SignupUser(body, role) ==
    CASE variant = "face" ->
           [email |-> body.email, rollNumber |-> body.rollNumber,
            role |-> role, faceDescriptor |-> <<>>]
      [] variant = "v1" -> [email |-> body.email, role |-> role]
      [] variant = "v2" ->
           [email |-> body.email, rollNumber |-> body.rollNumber,
            passwordHash |-> body.password, role |-> role,
            monitorClasses |-> {}]
      [] variant = "v3" ->
           [email |-> body.email, rollNumber |-> body.rollNumber,
            passwordHash |-> body.password, role |-> role]

\* the token /signup answers with
SignupToken(user, id) ==
    CASE variant = "face" -> token(user)
      [] variant = "v1" -> tokenV1(user)
      [] OTHER -> createToken(user, id)

\* the tests of /signup before the count: Null when they pass, or the answer
SignupRefusal(body) ==
    CASE variant = "face" -> Null
      [] variant = "v1" ->
           IF \E f \in {"name", "email", "password"} : Falsy(body, f)
           THEN Reply400
           ELSE IF FindOne(User, [email |-> body.email]) # Null
           THEN Reply200(FALSE)
           ELSE Null
      [] OTHER ->
           IF MissingSignupField(body) THEN Reply400
           ELSE IF FindOne(User, [email |-> body.email]) # Null
                   \/ FindOne(User, [rollNumber |-> body.rollNumber]) # Null
           THEN Reply200(FALSE)
           ELSE Null

\* POST /signup up to and including const count = await User.countDocuments()
SignupCount(body) ==
    LET req == [op |-> "signup", body |-> body]
    IN
    /\ Len(inflight) < MaxInflight
    /\ Len(User) + Len(inflight) < MaxUsers
    /\ IF SignupRefusal(body) # Null
       THEN last' = req @@ [res |-> SignupRefusal(body)] /\ UNCHANGED inflight
       ELSE /\ inflight' = Append(inflight, req @@ [count |-> Len(User)])
            /\ UNCHANGED last
    /\ UNCHANGED <<variant, today, tokens, User, ClassModel, Attendance,
                   AttendanceRequest, Marks>>

\* the rest of POST /signup: bcrypt.hash, User.create with the role of the
\* count read before, and the answer.  Only the first iteration has a unique
\* index on users (email), which refuses a second document with the email.
SignupCreate(k) ==
    LET w == inflight[k]
        req == [op |-> "signup", body |-> w.body]
        user == SignupUser(w.body, SignupRole(w.count))
        Reply(res) == last' = req @@ [res |-> res]
    IN
    /\ k \in 1..Len(inflight)
    /\ inflight' = Remove(inflight, k)
    /\ IF variant = "face" /\ ~Has(w.body, "password")
       THEN Reply(Threw) /\ UNCHANGED <<User, tokens>>
       ELSE IF variant = "v1" /\ DuplicateKey(User, {"email"}, user)
       THEN Reply(Reply500) /\ UNCHANGED <<User, tokens>>
       ELSE /\ User' = Append(User, user)
            /\ tokens' = tokens \cup {SignupToken(user, Len(User) + 1)}
            /\ Reply(Reply200(TRUE) @@ [user |-> user])
    /\ UNCHANGED <<variant, today, ClassModel, Attendance, AttendanceRequest,
                   Marks>>

NextSignup ==
    \/ \E body \in SignupBodies : SignupCount(body)
    \/ \E k \in 1..MaxInflight : SignupCreate(k)

SpecSignup == InitUsers /\ [][NextSignup]_vars

\* C23: signups that run at the same time on an empty store leave at most
\* one user with role owner
C23_AtMostOneOwner ==
    Cardinality({i \in 1..Len(User) : User[i].role = "owner"}) <= 1

\* the third iteration with its three users stored and nobody logged in:
\* logins, role changes, profile updates and the attendance routes
InitStale ==
    /\ variant = "v3"
    /\ today = "2024-01-01"
    /\ User = UsersV3
    /\ tokens = {}
    /\ ClassModel = <<>>
    /\ Attendance = <<>>
    /\ AttendanceRequest = <<>>
    /\ Marks = <<>>
    /\ inflight = <<>>
    /\ last = NoRequest

\* req.body of /login for the three users, one with a wrong password
LoginBodiesV3 ==
    [loginId : {"o1", "t1", "r1"}, password : {"pw"}]
    \cup {[loginId |-> "r1", password |-> "zz"]}

NextStale ==
    \/ \E body \in LoginBodiesV3 :
           Cardinality(tokens) < MaxTokens /\ LoginV3(body)
    \/ \E tok \in tokens, rollNumber \in {"t1", "r1"},
          body \in {[role |-> "student"],
                    [role |-> "staff", monitorClass |-> "c1"]} :
           OwnerUserRoleV3(tok, rollNumber, body)
    \/ \E tok \in tokens, body \in {[rollNumber |-> "t1"], [rollNumber |-> "r1"]} :
           ProfileV3(tok, body)
    \/ \E tok \in tokens :
           OwnerAttendanceV3(tok, [rollNumber |-> "r1", className |-> "c1",
                                   status |-> "Present", date |-> "2024-01-01"])
    \/ \E tok \in tokens :
           OwnerAttendanceByDateV3(tok, [className |-> "c1",
                                         date |-> "2024-01-01"])

SpecStale == InitStale /\ [][NextStale]_vars

\* the request l presents a token issued while its user was staff, and the
\* user's document is now stored with role student
StaleStaffToken(l, users) ==
    /\ l.op \in {"owner/attendance", "owner/attendance/by-date"}
    /\ l.tok.role = "staff"
    /\ users[l.tok.id].role = "student"

\* C26: in the third iteration a user the owner has changed from staff to
\* student can neither write attendance through /owner/attendance nor read it
\* through /owner/attendance/by-date with a token issued while still staff
C26_DemotedStaffRefused ==
    [][StaleStaffToken(last', User)
         => last'.res.success = FALSE /\ Attendance' = Attendance]_vars

\* the second iteration from an empty users collection, with logins and the
\* owner-only routes
InitOwnerOnly == InitUsers /\ variant = "v2"

NextOwnerOnly ==
    \/ \E body \in SignupBodies : SignupV2(body)
    \/ \E body \in LoginBodies :
           Cardinality(tokens) < MaxTokens /\ LoginV2(body)
    \/ \E tok \in tokens, body \in ProfileBodies : ProfileV2(tok, body)
    \/ \E tok \in tokens, body \in SignupBodies : OwnerAddUserV2(tok, body)
    \/ \E tok \in tokens, body \in ClassBodies : OwnerClassV2(tok, body)
    \/ \E tok \in tokens, rollNumber \in {"u1", "u2"},
          body \in {[role |-> "student"], [role |-> "owner"]} :
           OwnerUserRoleV2(tok, rollNumber, body)

SpecOwnerOnly == InitOwnerOnly /\ [][NextOwnerOnly]_vars

\* the routes of the second iteration that only the owner may use
OwnerOnlyOps == {"owner/add-user", "owner/class", "owner/user/role"}

\* the request l comes from a caller whose own user document, the one the
\* token was issued for, is stored with role student in users
CallerStoredStudent(l, users) ==
    /\ l.op \in OwnerOnlyOps
    /\ l.tok.id \in 1..Len(users)
    /\ users[l.tok.id].role = "student"

\* C25: in the second iteration an owner-only operation asked by a caller
\* whose own stored role is student never succeeds, whatever signups, logins
\* and profile updates (roll number changes included) came before
C25_StudentNeverOwnerOp ==
    [][CallerStoredStudent(last', User) => last'.res.success = FALSE]_vars

\* request l is a signup that created a user
SignedUp(l) == l.op = "signup" /\ Has(l.res, "user")

\* C15: the signup into an empty users collection creates an owner, every
\* later signup creates a student, and no user is ever removed, so the owner
\* is the first user ever created
C15_FirstSignupIsOwner ==
    [][ /\ Len(User') >= Len(User)
        /\ SignedUp(last') /\ User' # User
           => /\ Len(User') = Len(User) + 1
              /\ User'[Len(User')].role =
                     IF Len(User) = 0 THEN "owner" ELSE "student"
              /\ last'.res.user.role = User'[Len(User')].role ]_vars

\* a second signup after the owner's created a student
C15_Witness ==
    /\ SignedUp(last)
    /\ Len(User) >= 2
    /\ User[Len(User)].email = last.body.email
    /\ User[Len(User)].role = "student"
    /\ User[1].role = "owner"

\* C16: every stored user has the role owner, staff or student
C16_RolesInClosedSet ==
    \A i \in 1..Len(User) : User[i].role \in {"owner", "staff", "student"}

\* C21: in the second and third iteration no two stored users share a roll
\* number and no two share an email
C21_UniqueRollAndEmail ==
    variant \in {"v2", "v3"}
    => \A i, j \in 1..Len(User) :
           (User[i].rollNumber = User[j].rollNumber
              \/ User[i].email = User[j].email) => i = j

\* C20: in the third iteration a user whose stored role is owner keeps it in
\* every step, and a role assignment that changes a user's role writes student
\* or staff
C20_OwnerRoleFixed ==
    [][ variant = "v3"
        => /\ \A i \in 1..Len(User) :
                  User[i].role = "owner" => User'[i].role = "owner"
           /\ last'.op = "owner/user/role"
              => \A i \in 1..Len(User) :
                     User'[i].role # User[i].role
                     => User'[i].role \in {"student", "staff"} ]_vars

\* the owner tried to make themselves a student and is still the owner
C20_Witness ==
    /\ variant = "v3"
    /\ last.op = "owner/user/role"
    /\ last.tok.role = "owner"
    /\ last.rollNumber = last.tok.rollNumber
    /\ last.body.role = "student"
    /\ last.res = Reply200(FALSE)
    /\ FindOne(User, [rollNumber |-> last.rollNumber]).role = "owner"
    /\ Len(User) >= 2

----------------------------------------------------------------------------
(* geo as a function of two points *)

\* points a few tens of metres apart on both sides of the 9th parallel, where
\* the cosines of the two latitudes differ in the model's precision
GeoPoints ==
    [lat : {899990, 900000, 900010, 900050},
     lon : {8000000, 8000040, 8000100}]

InitGeo ==
    /\ variant = "face"
    /\ today = "2024-01-01"
    /\ User = <<>>
    /\ tokens = {}
    /\ ClassModel = <<>>
    /\ Attendance = <<>>
    /\ AttendanceRequest = <<>>
    /\ Marks = <<>>
    /\ inflight = <<>>
    /\ last = NoRequest

\* one evaluation of geo(a.lat, a.lon, b.lat, b.lon)
GeoCall(a, b) ==
    /\ last' = [op |-> "geo", a |-> a, b |-> b,
                res |-> geo(a.lat, a.lon, b.lat, b.lon)]
    /\ UNCHANGED <<variant, today, tokens, User, ClassModel, Attendance,
                   AttendanceRequest, Marks, inflight>>

NextGeo == \E a \in GeoPoints, b \in GeoPoints : GeoCall(a, b)

SpecGeo == InitGeo /\ [][NextGeo]_vars

\* C18: the distance from a to b is the distance from b to a
C18_GeoSymmetric ==
    last.op = "geo"
    => last.res = geo(last.b.lat, last.b.lon, last.a.lat, last.a.lon)

\* a distance was computed between two points that differ in latitude and in
\* longitude and lie on different sides of the parallel
C18_Witness ==
    /\ last.op = "geo"
    /\ last.a.lat < 900000 /\ last.b.lat >= 900000
    /\ last.a.lon # last.b.lon
    /\ last.res > 0
    /\ last.res = geo(last.b.lat, last.b.lon, last.a.lat, last.a.lon)

=============================================================================
